---- MODULE Spec2Model ----
(***************************************************************************)
(* Model of app/tui/src/main.rs: a single async main that loads            *)
(* MONGODB_URI, builds a MongoDB client, pings the admin database, opens a *)
(* cursor over book_club.genres and prints every document.                 *)
(*                                                                         *)
(* The program is one linear task; every await point and every println is  *)
(* one action.  The store is the environment: it holds the collection and  *)
(* is reachable or not, and it may go down or come back while main runs.   *)
(* A driver call that needs a round trip succeeds iff the store is         *)
(* reachable at that moment.                                               *)
(***************************************************************************)
EXTENDS Integers, Sequences, FiniteSets, TLC

\* ------------------------------------------------------------------ bounds
MaxDocs == 2

\* ------------------------------------------------------- program constants
Running == -1
ExitOk == 0
ExitErr == 1
ExitPanic == 101

Unset == [scheme |-> "<unset>", host |-> ""]
NoFile == [scheme |-> "<nofile>", host |-> ""]
NoVar == [scheme |-> "<novar>", host |-> ""]
NoDoc == "<none>"

Schemes == {"mongodb", "mongodb+srv", ""}
Hosts == {"", "h"}
Uris == [scheme : Schemes, host : Hosts]
Docs == {"fantasy", "horror"}

ConnectedLine == <<"Connected to MongoDB!">>
HeaderLine == <<"Genres in collection:">>

VARIABLES pc, env, dotfile, uri, client_options, client, reachable, wasDown,
          collection, cursor, rest, book, delivered, stdout, calls, exit

vars == <<pc, env, dotfile, uri, client_options, client, reachable, wasDown,
          collection, cursor, rest, book, delivered, stdout, calls, exit>>

\* ----------------------------------------------------------------- helpers
SeqsUpTo(S, n) == UNION {[1..k -> S] : k \in 0..n}

\* A connection string is well formed when it has a MongoDB scheme and a host.
WellFormed(u) == u.scheme \in {"mongodb", "mongodb+srv"} /\ u.host # ""

\* ClientOptions::parse: a parse error for a malformed string; a mongodb+srv
\* string is resolved through DNS, which needs the network.
ParseOk(u, up) == WellFormed(u) /\ (u.scheme = "mongodb+srv" => up)
ParsedOptions(u) == [hosts |-> <<u.host>>, srv |-> u.scheme = "mongodb+srv"]
NoOptions == [hosts |-> <<>>, srv |-> FALSE]

\* Client::with_options validates the options it is given.
ValidOptions(o) == o.hosts # <<>>

\* println!("{:#?}", book): the pretty Debug form of a Document.
DebugFmt(d) == <<"Document({", d, "})">>
IsDocLine(l) == Len(l) = 3 /\ l[1] = "Document({" /\ l[3] = "})"
PrintedDocs(out) ==
    LET ls == SelectSeq(out, IsDocLine) IN [i \in 1..Len(ls) |-> ls[i][2]]

Call(op, res) == [op |-> op, res |-> res]
Log(op, res) == calls' = Append(calls, Call(op, res))

\* `?` on an Err: main returns Err, locals are dropped, the process exits 1.
DropCursor == IF cursor = "open" THEN "dropped" ELSE cursor

\* -------------------------------------------------------------------- Init
Init ==
    /\ pc = "dotenv"
    /\ env \in {Unset} \cup Uris
    /\ dotfile \in {NoFile, NoVar} \cup Uris
    /\ uri = Unset
    /\ client_options = NoOptions
    /\ client = "none"
    /\ reachable \in BOOLEAN
    /\ wasDown = ~reachable
    /\ collection \in SeqsUpTo(Docs, MaxDocs)
    /\ cursor = "none"
    /\ rest = <<>>
    /\ book = NoDoc
    /\ delivered = <<>>
    /\ stdout = <<>>
    /\ calls = <<>>
    /\ exit = Running

\* ------------------------------------------------------------ main's steps
\* line 10: dotenv().ok() - a variable already in the environment wins, a
\* missing file or a file without the variable is ignored.
LoadDotenv ==
    /\ pc = "dotenv"
    /\ env' = IF env = Unset /\ dotfile \in Uris THEN dotfile ELSE env
    /\ pc' = "getenv"
    /\ UNCHANGED <<dotfile, uri, client_options, client, reachable, wasDown,
                   collection, cursor, rest, book, delivered, stdout, calls,
                   exit>>

\* Variant of GetEnv: a missing variable falls back to a default connection
\* string (unwrap_or) instead of panicking.
GetEnvOrDefault ==
    /\ pc = "getenv"
    /\ pc' = "parse"
    /\ uri' = IF env = Unset THEN [scheme |-> "mongodb", host |-> "h"] ELSE env
    /\ UNCHANGED <<env, dotfile, client_options, client, reachable, wasDown,
                   collection, cursor, rest, book, delivered, stdout, calls,
                   exit>>

\* line 13: env::var("MONGODB_URI").expect(..) - panics when unset.
GetEnv ==
    /\ pc = "getenv"
    /\ IF env = Unset
         THEN /\ pc' = "exit"
              /\ exit' = ExitPanic
              /\ uri' = uri
         ELSE /\ pc' = "parse"
              /\ exit' = exit
              /\ uri' = env
    /\ UNCHANGED <<env, dotfile, client_options, client, reachable, wasDown,
                   collection, cursor, rest, book, delivered, stdout, calls>>

\* Variant of ParseOptions: a parse error is replaced by default options
\* (unwrap_or_default) and main goes on.
ParseOptionsOrDefault ==
    /\ pc = "parse"
    /\ IF ParseOk(uri, reachable)
         THEN /\ Log("parse", "ok")
              /\ client_options' = ParsedOptions(uri)
         ELSE /\ Log("parse", "err")
              /\ client_options' = [hosts |-> <<"localhost">>, srv |-> FALSE]
    /\ pc' = "with_options"
    /\ UNCHANGED <<env, dotfile, uri, client, reachable, wasDown, collection,
                   cursor, rest, book, delivered, stdout, exit>>

\* line 16: ClientOptions::parse(&uri).await?
ParseOptions ==
    /\ pc = "parse"
    /\ IF ParseOk(uri, reachable)
         THEN /\ Log("parse", "ok")
              /\ client_options' = ParsedOptions(uri)
              /\ pc' = "with_options"
              /\ exit' = exit
         ELSE /\ Log("parse", "err")
              /\ client_options' = client_options
              /\ pc' = "exit"
              /\ exit' = ExitErr
    /\ UNCHANGED <<env, dotfile, uri, client, reachable, wasDown, collection,
                   cursor, rest, book, delivered, stdout>>

\* line 17: Client::with_options(client_options)?
WithOptions ==
    /\ pc = "with_options"
    /\ IF ValidOptions(client_options)
         THEN /\ Log("with_options", "ok")
              /\ client' = "created"
              /\ pc' = "ping"
              /\ exit' = exit
         ELSE /\ Log("with_options", "err")
              /\ client' = client
              /\ pc' = "exit"
              /\ exit' = ExitErr
    /\ UNCHANGED <<env, dotfile, uri, client_options, reachable, wasDown,
                   collection, cursor, rest, book, delivered, stdout>>

\* Variant of Ping: the result of the ping is dropped without `?`.
PingIgnoreErr ==
    /\ pc = "ping"
    /\ client = "created"
    /\ Log("ping", IF reachable THEN "ok" ELSE "err")
    /\ pc' = "print_connected"
    /\ UNCHANGED <<env, dotfile, uri, client_options, client, reachable,
                   wasDown, collection, cursor, rest, book, delivered, stdout,
                   exit>>

\* Variant of Ping: a failed ping is tried a second time before giving up.
PingRetryOnce ==
    /\ pc = "ping"
    /\ client = "created"
    /\ IF reachable
         THEN /\ Log("ping", "ok")
              /\ pc' = "print_connected"
              /\ exit' = exit
              /\ client' = client
         ELSE /\ Log("ping", "err")
              /\ IF calls # <<>> /\ calls[Len(calls)] = Call("ping", "err")
                   THEN pc' = "exit" /\ exit' = ExitErr /\ client' = "dropped"
                   ELSE pc' = pc /\ exit' = exit /\ client' = client
    /\ UNCHANGED <<env, dotfile, uri, client_options, reachable, wasDown,
                   collection, cursor, rest, book, delivered, stdout>>

\* lines 20-23: client.database("admin").run_command(doc!{"ping": 1}).await?
Ping ==
    /\ pc = "ping"
    /\ client = "created"
    /\ IF reachable
         THEN /\ Log("ping", "ok")
              /\ pc' = "print_connected"
              /\ exit' = exit
              /\ client' = client
         ELSE /\ Log("ping", "err")
              /\ pc' = "exit"
              /\ exit' = ExitErr
              /\ client' = "dropped"
    /\ UNCHANGED <<env, dotfile, uri, client_options, reachable, wasDown,
                   collection, cursor, rest, book, delivered, stdout>>

\* line 25: println!("Connected to MongoDB!")
PrintConnected ==
    /\ pc = "print_connected"
    /\ stdout' = Append(stdout, ConnectedLine)
    /\ pc' = "find"
    /\ UNCHANGED <<env, dotfile, uri, client_options, client, reachable,
                   wasDown, collection, cursor, rest, book, delivered, calls,
                   exit>>

\* Variant of Find: an error from find ends main with Ok(()).
FindErrReturnsOk ==
    /\ pc = "find"
    /\ IF reachable
         THEN /\ Log("find", "ok")
              /\ cursor' = "open"
              /\ rest' = collection
              /\ pc' = "print_header"
              /\ exit' = exit
              /\ client' = client
         ELSE /\ Log("find", "err")
              /\ cursor' = cursor
              /\ rest' = rest
              /\ pc' = "exit"
              /\ exit' = ExitOk
              /\ client' = "dropped"
    /\ UNCHANGED <<env, dotfile, uri, client_options, reachable, wasDown,
                   collection, book, delivered, stdout>>

\* Variant of Find: the scan is opened with a deleting query, which removes
\* the first document of the collection.
FindAndDelete ==
    /\ pc = "find"
    /\ IF reachable
         THEN /\ Log("find", "ok")
              /\ cursor' = "open"
              /\ rest' = collection
              /\ collection' = IF collection = <<>> THEN collection
                               ELSE Tail(collection)
              /\ pc' = "print_header"
              /\ exit' = exit
              /\ client' = client
         ELSE /\ Log("find", "err")
              /\ cursor' = cursor
              /\ rest' = rest
              /\ collection' = collection
              /\ pc' = "exit"
              /\ exit' = ExitErr
              /\ client' = "dropped"
    /\ UNCHANGED <<env, dotfile, uri, client_options, reachable, wasDown,
                   book, delivered, stdout>>

\* lines 28-32: collection.find(None, None).await? on book_club.genres
Find ==
    /\ pc = "find"
    /\ IF reachable
         THEN /\ Log("find", "ok")
              /\ cursor' = "open"
              /\ rest' = collection
              /\ pc' = "print_header"
              /\ exit' = exit
              /\ client' = client
         ELSE /\ Log("find", "err")
              /\ cursor' = cursor
              /\ rest' = rest
              /\ pc' = "exit"
              /\ exit' = ExitErr
              /\ client' = "dropped"
    /\ UNCHANGED <<env, dotfile, uri, client_options, reachable, wasDown,
                   collection, book, delivered, stdout>>

\* line 34: println!("Genres in collection:")
PrintHeader ==
    /\ pc = "print_header"
    /\ stdout' = Append(stdout, HeaderLine)
    /\ pc' = "try_next"
    /\ UNCHANGED <<env, dotfile, uri, client_options, client, reachable,
                   wasDown, collection, cursor, rest, book, delivered, calls,
                   exit>>

\* Variant of TryNext: an exhausted cursor is reported as an error
\* (next().await.unwrap()-style handling of None).
TryNextNoneIsErr ==
    /\ pc = "try_next"
    /\ cursor = "open"
    /\ IF ~reachable \/ rest = <<>>
         THEN /\ Log("try_next", IF ~reachable THEN "err" ELSE "none")
              /\ pc' = "exit"
              /\ exit' = ExitErr
              /\ cursor' = "dropped"
              /\ client' = "dropped"
              /\ UNCHANGED <<rest, book, delivered>>
         ELSE /\ Log("try_next", "ok")
              /\ book' = Head(rest)
              /\ rest' = Tail(rest)
              /\ delivered' = Append(delivered, Head(rest))
              /\ pc' = "print_book"
              /\ UNCHANGED <<exit, cursor, client>>
    /\ UNCHANGED <<env, dotfile, uri, client_options, reachable, wasDown,
                   collection, stdout>>

\* Variant of TryNext: an error from the cursor only ends the loop
\* (while let Ok(Some(book))), so main still returns Ok(()).
TryNextErrEndsLoop ==
    /\ pc = "try_next"
    /\ cursor = "open"
    /\ IF ~reachable \/ rest = <<>>
         THEN /\ Log("try_next", IF ~reachable THEN "err" ELSE "none")
              /\ pc' = "return"
              /\ UNCHANGED <<exit, cursor, client, rest, book, delivered>>
         ELSE /\ Log("try_next", "ok")
              /\ book' = Head(rest)
              /\ rest' = Tail(rest)
              /\ delivered' = Append(delivered, Head(rest))
              /\ pc' = "print_book"
              /\ UNCHANGED <<exit, cursor, client>>
    /\ UNCHANGED <<env, dotfile, uri, client_options, reachable, wasDown,
                   collection, stdout>>

\* line 35: while let Some(book) = cursor.try_next().await?
TryNext ==
    /\ pc = "try_next"
    /\ cursor = "open"
    /\ IF ~reachable
         THEN /\ Log("try_next", "err")
              /\ pc' = "exit"
              /\ exit' = ExitErr
              /\ cursor' = "dropped"
              /\ client' = "dropped"
              /\ UNCHANGED <<rest, book, delivered>>
         ELSE IF rest = <<>>
         THEN /\ Log("try_next", "none")
              /\ pc' = "return"
              /\ UNCHANGED <<exit, cursor, client, rest, book, delivered>>
         ELSE /\ Log("try_next", "ok")
              /\ book' = Head(rest)
              /\ rest' = Tail(rest)
              /\ delivered' = Append(delivered, Head(rest))
              /\ pc' = "print_book"
              /\ UNCHANGED <<exit, cursor, client>>
    /\ UNCHANGED <<env, dotfile, uri, client_options, reachable, wasDown,
                   collection, stdout>>

\* Variant of PrintBook: the loop prints the first document it ever got
\* instead of the current one.
PrintBookStale ==
    /\ pc = "print_book"
    /\ stdout' = Append(stdout, DebugFmt(delivered[1]))
    /\ book' = NoDoc
    /\ pc' = "try_next"
    /\ UNCHANGED <<env, dotfile, uri, client_options, client, reachable,
                   wasDown, collection, cursor, rest, delivered, calls, exit>>

\* line 36: println!("{:#?}", book)
PrintBook ==
    /\ pc = "print_book"
    /\ stdout' = Append(stdout, DebugFmt(book))
    /\ book' = NoDoc
    /\ pc' = "try_next"
    /\ UNCHANGED <<env, dotfile, uri, client_options, client, reachable,
                   wasDown, collection, cursor, rest, delivered, calls, exit>>

\* Variant of ReturnOk: the cursor is leaked (mem::forget) instead of being
\* dropped when main returns.
ReturnOkLeak ==
    /\ pc = "return"
    /\ exit' = ExitOk
    /\ client' = "dropped"
    /\ pc' = "exit"
    /\ UNCHANGED <<env, dotfile, uri, client_options, reachable, wasDown,
                   collection, cursor, rest, book, delivered, stdout, calls>>

\* line 39: Ok(()) - locals are dropped and the process exits 0.
ReturnOk ==
    /\ pc = "return"
    /\ exit' = ExitOk
    /\ cursor' = DropCursor
    /\ client' = "dropped"
    /\ pc' = "exit"
    /\ UNCHANGED <<env, dotfile, uri, client_options, reachable, wasDown,
                   collection, rest, book, delivered, stdout, calls>>

Main ==
    \/ LoadDotenv
    \/ GetEnv
    \/ ParseOptions
    \/ WithOptions
    \/ Ping
    \/ PrintConnected
    \/ Find
    \/ PrintHeader
    \/ TryNext
    \/ PrintBook
    \/ ReturnOk

\* ------------------------------------------------------------- environment
\* The store becomes unreachable while main runs.
StoreDown ==
    /\ exit = Running
    /\ reachable
    /\ reachable' = FALSE
    /\ wasDown' = TRUE
    /\ UNCHANGED <<pc, env, dotfile, uri, client_options, client, collection,
                   cursor, rest, book, delivered, stdout, calls, exit>>

\* The store comes back while main runs.
StoreUp ==
    /\ exit = Running
    /\ ~reachable
    /\ reachable' = TRUE
    /\ UNCHANGED <<pc, env, dotfile, uri, client_options, client, wasDown,
                   collection, cursor, rest, book, delivered, stdout, calls,
                   exit>>

Next ==
    \/ Main
    \/ StoreDown
    \/ StoreUp

Spec == Init /\ [][Next]_vars

\* tokio's block_on drives main to completion: a step of main that is
\* enabled is eventually taken.
FairSpec == Spec /\ WF_vars(Main)

\* ------------------------------------------------------- derived notions
CallsOf(op) == {i \in 1..Len(calls) : calls[i].op = op}
HasCall(op, res) == \E i \in 1..Len(calls) : calls[i] = Call(op, res)
Failed == \E i \in 1..Len(calls) : calls[i].res = "err"
Exhausted == HasCall("try_next", "none")
Terminated == exit # Running

\* The operation main issues as its i-th driver call.
OpAt(i) ==
    CASE i = 1 -> "parse"
      [] i = 2 -> "with_options"
      [] i = 3 -> "ping"
      [] i = 4 -> "find"
      [] OTHER -> "try_next"

\* The configuration names a well-formed connection string and the store
\* was reachable during the whole run so far.
Healthy == uri # Unset /\ WellFormed(uri) /\ ~wasDown

IsPrefix(a, b) == Len(a) <= Len(b) /\ a = SubSeq(b, 1, Len(a))

\* ------------------------------------------------------------------- C1
\* C1: the driver calls occur in program order - parse, with_options, ping,
\* find, then the cursor advances - each issued only after every earlier
\* call has succeeded, and every printed document was delivered by a cursor
\* advance that followed a successful ping and a successful find.
ProgramOrder ==
    /\ \A i \in 1..Len(calls) : calls[i].op = OpAt(i)
    /\ \A i \in 1..(Len(calls) - 1) : calls[i].res = "ok"
    /\ Len(PrintedDocs(stdout)) <=
         Cardinality({i \in CallsOf("try_next") : calls[i].res = "ok"})
    /\ PrintedDocs(stdout) # <<>> =>
         /\ Len(calls) >= 5
         /\ calls[3] = Call("ping", "ok")
         /\ calls[4] = Call("find", "ok")

ProgramOrderWitness ==
    /\ Len(PrintedDocs(stdout)) = 2
    /\ Len(calls) = 6

\* ------------------------------------------------------------------- C2
\* C2: when MONGODB_URI is still unset after the .env load, main panics
\* without having issued any driver call.
UnsetStopsBeforeNetwork ==
    (pc # "dotenv" /\ env = Unset) =>
        /\ calls = <<>>
        /\ client = "none"
        /\ cursor = "none"
        /\ pc \in {"getenv", "exit"}
        /\ pc = "exit" => exit = ExitPanic

UnsetWitness == pc = "exit" /\ env = Unset /\ dotfile = NoVar /\ exit = ExitPanic

\* ------------------------------------------------------------------- C3
\* C3: with a malformed connection string the parse fails, main exits with
\* the error, and neither ping nor find nor a cursor advance is ever called.
MalformedStopsAtConnect ==
    (uri # Unset /\ ~WellFormed(uri)) =>
        /\ \A i \in 1..Len(calls) : calls[i].op \notin {"ping", "find", "try_next"}
        /\ pc \in {"parse", "exit"}
        /\ pc = "exit" => (calls = <<Call("parse", "err")>> /\ exit = ExitErr)

MalformedWitness ==
    /\ pc = "exit"
    /\ uri = [scheme |-> "", host |-> "h"]
    /\ calls = <<Call("parse", "err")>>

\* ------------------------------------------------------------------- C4
\* C4: when the cursor has delivered its N documents and reported the end
\* without error, the documents printed are exactly the N delivered, once
\* each and in delivery order, and the exit status is zero.
ScanPrintsEachOnceInOrder ==
    /\ pc = "try_next" => PrintedDocs(stdout) = delivered
    /\ Exhausted =>
         /\ PrintedDocs(stdout) = delivered
         /\ Len(PrintedDocs(stdout)) = Len(delivered)
         /\ Terminated => exit = ExitOk

ScanWitness ==
    /\ exit = ExitOk
    /\ Len(delivered) >= 2
    /\ delivered[1] # delivered[2]
    /\ PrintedDocs(stdout) = delivered

\* ------------------------------------------------------------------- C5
\* C5 as stated: a reachable store and an empty collection end in exit zero
\* with nothing at all on standard output.
EmptyScanPrintsNothing ==
    (Terminated /\ Healthy /\ collection = <<>>) =>
        /\ exit = ExitOk
        /\ delivered = <<>>
        /\ stdout = <<>>

\* C5 as amended: a reachable store and an empty collection end in exit
\* zero, the scan having delivered nothing and no document having been
\* printed; standard output holds exactly the two fixed banner lines.
EmptyScanPrintsNoDocument ==
    (Terminated /\ Healthy /\ collection = <<>>) =>
        /\ exit = ExitOk
        /\ Exhausted
        /\ delivered = <<>>
        /\ PrintedDocs(stdout) = <<>>
        /\ stdout = <<ConnectedLine, HeaderLine>>

EmptyScanWitness ==
    /\ Terminated
    /\ Healthy
    /\ collection = <<>>
    /\ calls[Len(calls)] = Call("try_next", "none")

\* ------------------------------------------------------------------- C6
\* C6: a cursor advance made while the store is unreachable surfaces an
\* error; main then exits non-zero at once, prints nothing more, and the
\* documents printed are exactly those delivered before the error.
MidScanFailureInv ==
    HasCall("try_next", "err") =>
        /\ pc = "exit"
        /\ exit = ExitErr
        /\ calls[Len(calls)] = Call("try_next", "err")
        /\ PrintedDocs(stdout) = delivered
        /\ IsPrefix(delivered, collection)

MidScanFailureStep ==
    (pc = "try_next" /\ ~reachable /\ pc' # pc) =>
        /\ calls' = Append(calls, Call("try_next", "err"))
        /\ exit' = ExitErr
        /\ stdout' = stdout
        /\ delivered' = delivered

MidScanFailure == [](MidScanFailureInv) /\ [][MidScanFailureStep]_vars

MidScanWitness ==
    /\ HasCall("try_next", "err")
    /\ Len(delivered) = 1
    /\ Len(collection) = 2
    /\ Len(PrintedDocs(stdout)) = 1

\* ------------------------------------------------------------------- C7
\* C7: a finished run has exit status zero exactly when parse,
\* with_options, ping, find and every cursor advance succeeded and the
\* cursor reported its end; a failed call or a missing variable ends the
\* run with a non-zero status.
AllSucceeded ==
    /\ Len(calls) >= 5
    /\ \A i \in 1..Len(calls) : calls[i].res # "err"
    /\ \A i \in 1..4 : calls[i] = Call(OpAt(i), "ok")
    /\ calls[Len(calls)] = Call("try_next", "none")

ExitStatus ==
    /\ Terminated => (exit = ExitOk <=> AllSucceeded)
    /\ Failed => exit = ExitErr
    /\ (pc \notin {"dotenv", "getenv"} /\ env = Unset) => exit = ExitPanic

ExitStatusWitness ==
    /\ exit = ExitErr
    /\ calls[Len(calls)] = Call("find", "err")

\* ------------------------------------------------------------------- C8
\* C8: parse, with_options, ping and find are each issued at most once; no
\* call follows a failed call or the end of the cursor; and with a well
\* formed connection string and a store reachable throughout, ping has
\* succeeded exactly once as soon as main is past it.
NoRetry ==
    /\ \A op \in {"parse", "with_options", "ping", "find"} :
         Cardinality(CallsOf(op)) <= 1
    /\ \A i \in 1..(Len(calls) - 1) : calls[i].res = "ok"
    /\ Failed => pc = "exit"
    /\ (Healthy /\ pc \notin {"parse", "with_options", "ping"}) =>
         Cardinality({i \in CallsOf("ping") : calls[i].res = "ok"}) = 1

NoRetryWitness ==
    /\ Len(calls) = 3
    /\ calls[3] = Call("ping", "err")
    /\ pc = "exit"

\* ------------------------------------------------------------------- C9
\* C9: no step of any run changes the contents of the collection.
ReadOnly == [][collection' = collection]_vars

ReadOnlyWitness ==
    /\ Terminated
    /\ Len(collection) = 2
    /\ Len(delivered) = 2
    /\ delivered = collection

\* ------------------------------------------------------------------ C10
\* C10: every run of main reaches a terminal state, exit zero or non-zero,
\* in which the cursor is not open.
Terminates == <>(pc = "exit" /\ Terminated /\ cursor # "open")

TerminatesWitness == pc = "exit" /\ exit = ExitErr /\ cursor = "dropped"

====
